---- MODULE Spec2Model ----
(***************************************************************************)
(* State-machine model of atom/browser/net/request_context_factory.cc:     *)
(* AtomMainRequestContextFactory (the builder), its Create() pass on the   *)
(* IO thread, the request dispatch through the job factory it wires, and   *)
(* the cookie-change redispatch from the IO thread to the UI thread.       *)
(***************************************************************************)
EXTENDS Integers, Sequences, FiniteSets, TLC

\* ------------------------------------------------------------------ bounds
MaxInterceptors == 2
MaxCreates == 2
MaxCookieChanges == 2

\* ------------------------------------------------------- input universes
InterceptorIds == 1..MaxInterceptors

BuiltinSchemes == {"about", "data", "file", "http", "https", "ws", "wss", "ftp"}

AllSchemes == BuiltinSchemes \cup {"custom", "mailto"}

RequestSchemes == {"http"}

ExternalSchemeSets == {{}, {"http", "custom"}}

BasePaths == {<<"userdata">>}

Switches == {"no-proxy-server", "proxy-server", "proxy-bypass-list",
             "proxy-pac-url", "disable-http-cache", "host-resolver-rules"}

Cookies == {"sid"}

CookieChangeCauses == {"INSERTED", "EXPLICIT", "EXPIRED"}

\* All sequences of pairwise distinct interceptors (each interceptor is a
\* uniquely owned object) of length at most MaxInterceptors.
RECURSIVE DistinctSeqs(_, _)
DistinctSeqs(S, n) ==
  IF n = 0 THEN {<<>>}
  ELSE {<<>>} \cup
       UNION {{<<x>> \o t : t \in DistinctSeqs(S \ {x}, n - 1)} : x \in S}

InterceptorSeqs == DistinctSeqs(InterceptorIds, MaxInterceptors)

\* ------------------------------------------------------------ command line
\* base::CommandLine: the set of switches present; a present switch carries
\* the value below, GetSwitchValueASCII of an absent switch is "".
SwitchValue(s) ==
  CASE s = "proxy-server" -> "proxy.example:8080"
    [] s = "proxy-bypass-list" -> "localhost"
    [] s = "proxy-pac-url" -> "http://pac.example/proxy.pac"
    [] s = "host-resolver-rules" -> "MAP * 127.0.0.1"
    [] s = "disk-cache-size" -> "50"
    [] OTHER -> ""

HasSwitch(cl, s) == s \in cl

GetSwitchValueASCII(cl, s) == IF s \in cl THEN SwitchValue(s) ELSE ""

\* base::StringToInt into max_size, which starts at 0: a string that is no
\* number (the value of an absent switch is "") gives 0.
StringToInt(str) == IF str = "50" THEN 50 ELSE 0

\* ------------------------------------------------------------------- paths
EmptyFilePath == <<>>

FilePathAppend(p, component) == p \o <<component>>

\* ------------------------------------------------------------ cache backend
NoCacheBackend == [type |-> "NO_CACHE", path |-> EmptyFilePath, max_size |-> 0]

InMemoryBackend(max) ==
  [type |-> "MEMORY_CACHE", path |-> EmptyFilePath, max_size |-> max]

DefaultBackend(type, cache_path, max) ==
  [type |-> type, path |-> cache_path, max_size |-> max]

\* NoCacheBackend::CreateBackend returns net::ERR_FAILED on every call; the
\* default backends create their cache.
CreateBackend(backend) ==
  IF backend.type = "NO_CACHE" THEN "ERR_FAILED" ELSE "OK"

CreateHttpCacheBackendFactory_IgnoresSwitch(cl, use_cache, base_path) ==
  IF ~use_cache
  THEN NoCacheBackend
  ELSE DefaultBackend("DISK_CACHE", FilePathAppend(base_path, "Cache"),
                      StringToInt(GetSwitchValueASCII(cl, "disk-cache-size")))

CreateHttpCacheBackendFactory(cl, use_cache, base_path) ==
  IF ~use_cache \/ HasSwitch(cl, "disable-http-cache")
  THEN NoCacheBackend
  ELSE DefaultBackend("DISK_CACHE", FilePathAppend(base_path, "Cache"),
                      StringToInt(GetSwitchValueASCII(cl, "disk-cache-size")))

SelectBackend_CacheFlagFirst(cl, in_memory, use_cache, base_path) ==
  IF ~use_cache \/ HasSwitch(cl, "disable-http-cache")
  THEN NoCacheBackend
  ELSE IF in_memory THEN InMemoryBackend(0)
  ELSE CreateHttpCacheBackendFactory(cl, use_cache, base_path)

\* Create(), the backend selection.
SelectBackend(cl, in_memory, use_cache, base_path) ==
  IF in_memory
  THEN InMemoryBackend(0)
  ELSE CreateHttpCacheBackendFactory(cl, use_cache, base_path)

\* ------------------------------------------------------------ cookie store
CookiePath(in_memory, base_path) ==
  IF in_memory THEN EmptyFilePath ELSE FilePathAppend(base_path, "Cookies")

\* content::CreateCookieStore(CookieStoreConfig(path, ...)): an empty path
\* gives a store with no persistent backing.
CreateCookieStore(cookie_path) ==
  [path |-> cookie_path,
   backing |-> IF cookie_path = EmptyFilePath THEN "memory" ELSE "persistent"]

\* --------------------------------------------------------- proxy resolution
ProxySystemSource == "system_proxy_config_service"

NullSource == "null"

SelectProxy_ServerFirst(cl, config_service) ==
  IF HasSwitch(cl, "proxy-server")
  THEN [kind |-> "fixed",
        rules |-> GetSwitchValueASCII(cl, "proxy-server"),
        bypass |-> GetSwitchValueASCII(cl, "proxy-bypass-list"),
        pac_url |-> "", pac_mandatory |-> FALSE, source |-> NullSource]
  ELSE IF HasSwitch(cl, "no-proxy-server")
  THEN [kind |-> "direct", rules |-> "", bypass |-> "", pac_url |-> "",
        pac_mandatory |-> FALSE, source |-> NullSource]
  ELSE IF HasSwitch(cl, "proxy-pac-url")
  THEN [kind |-> "fixed", rules |-> "", bypass |-> "",
        pac_url |-> GetSwitchValueASCII(cl, "proxy-pac-url"),
        pac_mandatory |-> TRUE, source |-> NullSource]
  ELSE [kind |-> "system", rules |-> "", bypass |-> "", pac_url |-> "",
        pac_mandatory |-> FALSE, source |-> config_service]

\* Create(), the --proxy-server block.
SelectProxy(cl, config_service) ==
  IF HasSwitch(cl, "no-proxy-server")
  THEN [kind |-> "direct", rules |-> "", bypass |-> "", pac_url |-> "",
        pac_mandatory |-> FALSE, source |-> NullSource]
  ELSE IF HasSwitch(cl, "proxy-server")
  THEN [kind |-> "fixed",
        rules |-> GetSwitchValueASCII(cl, "proxy-server"),
        bypass |-> GetSwitchValueASCII(cl, "proxy-bypass-list"),
        pac_url |-> "", pac_mandatory |-> FALSE, source |-> NullSource]
  ELSE IF HasSwitch(cl, "proxy-pac-url")
  THEN [kind |-> "fixed", rules |-> "", bypass |-> "",
        pac_url |-> GetSwitchValueASCII(cl, "proxy-pac-url"),
        pac_mandatory |-> TRUE, source |-> NullSource]
  ELSE [kind |-> "system", rules |-> "", bypass |-> "", pac_url |-> "",
        pac_mandatory |-> FALSE, source |-> config_service]

\* ------------------------------------------------------ scheme dispatch table
ExternalHandler(scheme) == [origin |-> "external", impl |-> scheme]

BuiltinHandler(impl) == [origin |-> "builtin", impl |-> impl]

EmptyTable == [s \in {} |-> BuiltinHandler("")]

NoHandler == [origin |-> "none", impl |-> ""]

\* AtomURLRequestJobFactory::SetProtocolHandler: a scheme that already has a
\* handler keeps it.
SetProtocolHandler(table, scheme, handler) ==
  IF scheme \in DOMAIN table THEN table ELSE table @@ (scheme :> handler)

\* resolve(scheme) -> handler | none
Resolve(table, scheme) ==
  IF scheme \in DOMAIN table THEN table[scheme] ELSE NoHandler

\* The built-in registrations of CreateURLRequestJobFactory, in source order.
BuiltinRegistrations ==
  << <<"about", BuiltinHandler("AboutProtocolHandler")>>,
     <<"data", BuiltinHandler("DataProtocolHandler")>>,
     <<"file", BuiltinHandler("AsarProtocolHandler")>>,
     <<"http", BuiltinHandler("HttpProtocolHandler")>>,
     <<"https", BuiltinHandler("HttpProtocolHandler")>>,
     <<"ws", BuiltinHandler("HttpProtocolHandler")>>,
     <<"wss", BuiltinHandler("HttpProtocolHandler")>>,
     <<"ftp", BuiltinHandler("FtpProtocolHandler")>> >>

\* The loop over *protocol_handlers (a std::map: one entry per scheme).
RECURSIVE InstallExternal(_, _)
InstallExternal(table, handlers) ==
  IF DOMAIN handlers = {} THEN table
  ELSE LET s == CHOOSE x \in DOMAIN handlers : TRUE
           rest == [y \in DOMAIN handlers \ {s} |-> handlers[y]]
       IN InstallExternal(SetProtocolHandler(table, s, handlers[s]), rest)

RECURSIVE InstallBuiltins(_, _)
InstallBuiltins(table, regs) ==
  IF regs = <<>> THEN table
  ELSE InstallBuiltins(SetProtocolHandler(table, Head(regs)[1], Head(regs)[2]),
                       Tail(regs))

CreateURLRequestJobFactory_BuiltinsFirst(handlers) ==
  InstallExternal(InstallBuiltins(EmptyTable, BuiltinRegistrations), handlers)

CreateURLRequestJobFactory(handlers) ==
  InstallBuiltins(InstallExternal(EmptyTable, handlers), BuiltinRegistrations)

\* --------------------------------------------------------- interceptor chain
\* A job factory is the sequence of the interceptors that wrap the dispatch
\* table, outermost wrapper first; <<>> is the bare dispatch table.
\* new URLRequestInterceptingJobFactory(std::move(top), interceptor)
InterceptingJobFactory(top, interceptor) == <<interceptor>> \o top

RECURSIVE WrapFrom(_, _, _)
WrapFrom(top, interceptors, k) ==
  IF k = 0 THEN top
  ELSE WrapFrom(InterceptingJobFactory(top, interceptors[k]), interceptors,
                k - 1)

RECURSIVE WrapForwardFrom(_, _, _)
WrapForwardFrom(top, interceptors, k) ==
  IF k > Len(interceptors) THEN top
  ELSE WrapForwardFrom(InterceptingJobFactory(top, interceptors[k]),
                       interceptors, k + 1)

WrapInterceptors_Forward(interceptors) ==
  WrapForwardFrom(<<>>, interceptors, 1)

WrapInterceptors_DropsInnermost(interceptors) ==
  IF interceptors = <<>> THEN <<>>
  ELSE WrapFrom(<<>>, interceptors, Len(interceptors) - 1)

\* Create(): "Set up interceptors in the reverse order" (rbegin .. rend).
WrapInterceptors(interceptors) ==
  IF interceptors # <<>>
  THEN WrapFrom(<<>>, interceptors, Len(interceptors))
  ELSE <<>>

\* One request through the top-level job factory: every wrapper asks its
\* interceptor first and hands the request to the wrapped factory when the
\* interceptor declines.  Returns the parties consulted, in order; 0 is the
\* dispatch table.
RECURSIVE Consulted(_, _)
Consulted(top, willing) ==
  IF top = <<>> THEN <<0>>
  ELSE IF Head(top) \in willing THEN <<Head(top)>>
  ELSE <<Head(top)>> \o Consulted(Tail(top), willing)

\* ------------------------------------------------------------ host resolver
\* Create(), the --host-resolver-rules block.
CreateHostResolver(cl) ==
  IF HasSwitch(cl, "host-resolver-rules")
  THEN [kind |-> "MappedHostResolver",
        rules |-> GetSwitchValueASCII(cl, "host-resolver-rules")]
  ELSE [kind |-> "DefaultResolver", rules |-> ""]

\* ------------------------------------------------------------- build order
\* The components Create() constructs, in the order of its statements.
BuildOrder_SecurityFirst(cl) ==
  <<"url_request_context", "ct_delegate", "storage", "network_delegate",
    "cookie_store", "cookie_change_sub", "channel_id_service",
    "http_user_agent_settings", "transport_security_state", "host_resolver",
    "proxy_resolution_service", "http_auth_preferences",
    "http_auth_handler_factory", "cert_verifier",
    "ssl_config_service", "http_server_properties",
    "cert_transparency_verifier", "ct_policy_enforcer",
    "network_session_params", "http_network_session", "cache_backend",
    "http_transaction_factory", "job_factory", "top_job_factory">>

BuildOrder(cl) ==
  <<"url_request_context", "ct_delegate", "storage", "network_delegate",
    "cookie_store", "cookie_change_sub", "channel_id_service",
    "http_user_agent_settings", "host_resolver">>
  \o (IF HasSwitch(cl, "host-resolver-rules")
      THEN <<"mapped_host_resolver">> ELSE <<>>)
  \o <<"proxy_resolution_service", "http_auth_preferences",
       "http_auth_handler_factory", "transport_security_state",
       "cert_verifier", "ssl_config_service", "http_server_properties",
       "cert_transparency_verifier", "ct_policy_enforcer",
       "network_session_params", "http_network_session", "cache_backend",
       "http_transaction_factory", "job_factory", "top_job_factory">>

\* What the construction of a component reads, from the arguments of the
\* statement that constructs it.
Deps(step) ==
  CASE step = "storage" -> {"url_request_context"}
    [] step = "network_delegate" -> {"storage"}
    [] step = "cookie_store" -> {"storage"}
    [] step = "cookie_change_sub" -> {"cookie_store"}
    [] step = "channel_id_service" -> {"storage"}
    [] step = "http_user_agent_settings" -> {"storage"}
    [] step = "mapped_host_resolver" -> {"host_resolver"}
    [] step = "proxy_resolution_service" -> {"storage"}
    [] step = "http_auth_handler_factory" ->
         {"http_auth_preferences", "host_resolver"}
    [] step = "transport_security_state" -> {"ct_delegate", "storage"}
    [] step = "cert_verifier" -> {"ct_delegate", "storage"}
    [] step = "ssl_config_service" -> {"storage"}
    [] step = "http_server_properties" -> {"storage"}
    [] step = "cert_transparency_verifier" -> {"storage"}
    [] step = "ct_policy_enforcer" -> {"storage"}
    [] step = "http_network_session" ->
         {"network_session_params", "url_request_context", "host_resolver",
          "proxy_resolution_service", "transport_security_state",
          "cert_verifier", "http_auth_handler_factory"}
    [] step = "http_transaction_factory" ->
         {"http_network_session", "cache_backend"}
    [] step = "job_factory" -> {"host_resolver"}
    [] step = "top_job_factory" -> {"job_factory"}
    [] OTHER -> {}

\* ------------------------------------------------------------------- state
VARIABLES
  command_line,          \* base::CommandLine::ForCurrentProcess()
  base_path_, in_memory_, use_cache_,
  handlers_in,           \* constructor argument *protocol_handlers
  interceptors_in,       \* constructor argument request_interceptors
  protocol_handlers_, request_interceptors_,
  proxy_config_service_,
  url_request_context_,  \* with what storage_ owns for it
  build_log,             \* components in the order the last Create() built them
  creates,               \* calls of Create() so far
  last_dispatch,         \* the last request sent through the job factory of
                         \* url_request_context_, none for a new one
  builder_alive,         \* FALSE once ~AtomMainRequestContextFactory has run
  weak_valid,            \* weak_ptr_factory_ has live weak pointers
  profile_alive,         \* browser_context_ is valid
  cookie_change_sub_,
  changes_fired,
  ui_queue,              \* tasks posted to BrowserThread::UI, oldest first
  ui_task,               \* the task the UI thread is inside, if any
  ui_log,                \* what every finished UI task did
  touched_freed          \* a member of the destroyed builder has been read

inputs == <<command_line, base_path_, in_memory_, use_cache_, handlers_in,
            interceptors_in>>

build_vars == <<protocol_handlers_, request_interceptors_,
                proxy_config_service_, url_request_context_, build_log,
                creates>>

cookie_vars == <<changes_fired, ui_queue, ui_task, ui_log, touched_freed>>

vars == <<inputs, build_vars, last_dispatch, builder_alive, weak_valid,
          profile_alive, cookie_change_sub_, cookie_vars>>

NoContext == [built |-> FALSE]

NoDispatch ==
  [gen |-> 0, scheme |-> "", willing |-> {}, consulted |-> <<>>,
   handler |-> NoHandler]

NoTask == [cookie |-> "", cause |-> ""]

CommandLines == SUBSET Switches

ExternalMaps == {[s \in S |-> ExternalHandler(s)] : S \in ExternalSchemeSets}

\* The state the constructor leaves: the arguments are captured, the handler
\* map is swapped in, the system proxy config service is created.
Constructed ==
  /\ protocol_handlers_ = handlers_in
  /\ request_interceptors_ = interceptors_in
  /\ proxy_config_service_ = ProxySystemSource
  /\ url_request_context_ = NoContext
  /\ build_log = <<>>
  /\ creates = 0
  /\ last_dispatch = NoDispatch
  /\ builder_alive = TRUE
  /\ weak_valid = TRUE
  /\ profile_alive = TRUE
  /\ cookie_change_sub_ = FALSE
  /\ changes_fired = 0
  /\ ui_queue = <<>>
  /\ ui_task = NoTask
  /\ ui_log = <<>>
  /\ touched_freed = FALSE

Init ==
  /\ command_line \in CommandLines
  /\ base_path_ \in BasePaths
  /\ in_memory_ \in BOOLEAN
  /\ use_cache_ \in BOOLEAN
  /\ handlers_in \in ExternalMaps
  /\ interceptors_in \in InterceptorSeqs
  /\ Constructed

\* ------------------------------------------------------------------ Create
ResetContext_KeepsBuilt(old, new) == IF old.built THEN old ELSE new

\* url_request_context_.reset(new net::URLRequestContext) and the setters
\* that fill it: the object held before is replaced.
ResetContext(old, new) == new

BuiltContext ==
  [built |-> TRUE,
   gen |-> creates + 1,
   cookie_store |-> CreateCookieStore(CookiePath(in_memory_, base_path_)),
   host_resolver |-> CreateHostResolver(command_line),
   proxy |-> SelectProxy(command_line, proxy_config_service_),
   backend |-> SelectBackend(command_line, in_memory_, use_cache_, base_path_),
   job_factory |-> CreateURLRequestJobFactory(protocol_handlers_),
   top_job_factory |-> WrapInterceptors(request_interceptors_)]

\* AtomMainRequestContextFactory::Create(), on the IO thread.
Create ==
  /\ builder_alive
  /\ creates < MaxCreates
  /\ url_request_context_' = ResetContext(url_request_context_, BuiltContext)
  /\ build_log' = BuildOrder(command_line)
  /\ cookie_change_sub_' = TRUE
  /\ proxy_config_service_' =
       IF SelectProxy(command_line, proxy_config_service_).kind = "system"
       THEN NullSource ELSE proxy_config_service_
  /\ protocol_handlers_' = EmptyTable
  /\ request_interceptors_' = <<>>
  /\ creates' = creates + 1
  /\ last_dispatch' = NoDispatch
  /\ UNCHANGED <<inputs, builder_alive, weak_valid, profile_alive,
                 cookie_vars>>

\* A request for `scheme` handed to the job factory of the served context;
\* `willing` are the interceptors that would take this request.
Dispatch(scheme, willing) ==
  /\ builder_alive
  /\ url_request_context_.built
  /\ LET consulted == Consulted(url_request_context_.top_job_factory, willing)
     IN last_dispatch' =
          [gen |-> url_request_context_.gen,
           scheme |-> scheme,
           willing |-> willing,
           consulted |-> consulted,
           handler |-> IF consulted[Len(consulted)] = 0
                       THEN Resolve(url_request_context_.job_factory, scheme)
                       ELSE NoHandler]
  /\ UNCHANGED <<inputs, build_vars, builder_alive, weak_valid, profile_alive,
                 cookie_change_sub_, cookie_vars>>

\* ~AtomMainRequestContextFactory(): the body invalidates the weak pointers,
\* then the members are destroyed.  The builder owns the objects Create()
\* made on the IO thread (url_request_context_, storage_ with the cookie
\* store, cookie_change_sub_), so the destructor is a step of the IO thread.
Teardown ==
  /\ builder_alive
  /\ weak_valid' = FALSE
  /\ builder_alive' = FALSE
  /\ cookie_change_sub_' = FALSE
  /\ url_request_context_' = NoContext
  /\ last_dispatch' = NoDispatch
  /\ UNCHANGED <<inputs, protocol_handlers_, request_interceptors_,
                 proxy_config_service_, build_log, creates, profile_alive,
                 cookie_vars>>

Next ==
  \/ Create
  \/ \E scheme \in RequestSchemes, willing \in SUBSET InterceptorIds :
       Dispatch(scheme, willing)
  \/ Teardown

Spec == Init /\ [][Next]_vars

\* ------------------------------------------------------ cookie redispatch
\* CookieDetails(&cookie, !(cause == INSERTED), cause)
CookieDetails(cookie, cause) ==
  [cookie |-> cookie, removed |-> ~(cause = "INSERTED"), cause |-> cause]

\* The cookie store's change dispatcher runs the callback registered in
\* Create(): OnCookieChanged, on the IO thread, posts NotifyCookieChange to
\* the UI thread bound to a weak pointer to the builder.
OnCookieChanged(cookie, cause) ==
  /\ builder_alive
  /\ cookie_change_sub_
  /\ changes_fired < MaxCookieChanges
  /\ changes_fired' = changes_fired + 1
  /\ ui_queue' = Append(ui_queue, [cookie |-> cookie, cause |-> cause])
  /\ UNCHANGED <<inputs, build_vars, last_dispatch, builder_alive, weak_valid,
                 profile_alive, cookie_change_sub_, ui_task, ui_log,
                 touched_freed>>

LogEntry(task, weak_ok, builder_at_read, profile_at_read, delivered) ==
  [details |-> CookieDetails(task.cookie, task.cause),
   weak_ok |-> weak_ok,
   builder_at_read |-> builder_at_read,
   profile_at_read |-> profile_at_read,
   delivered |-> delivered]

\* The callback is bound to weak_ptr_factory_.GetWeakPtr(): it runs the
\* method only while the weak pointer is valid.
ReceiverUsable(weak) == weak

\* The UI thread takes the oldest posted task: a callback bound to a weak
\* pointer that has been invalidated is dropped, otherwise the UI thread
\* enters NotifyCookieChange on the builder.
RunTask ==
  /\ ui_task = NoTask
  /\ ui_queue # <<>>
  /\ ui_queue' = Tail(ui_queue)
  /\ IF ReceiverUsable(weak_valid)
     THEN /\ ui_task' = Head(ui_queue)
          /\ ui_log' = ui_log
     ELSE /\ ui_task' = NoTask
          /\ ui_log' = Append(ui_log, LogEntry(Head(ui_queue), FALSE,
                                               builder_alive, profile_alive,
                                               FALSE))
  /\ UNCHANGED <<inputs, build_vars, last_dispatch, builder_alive, weak_valid,
                 profile_alive, cookie_change_sub_, changes_fired,
                 touched_freed>>

\* if (browser_context_) ... ->NotifyCookieChange(&cookie_details)
DeliverToProfile_Unchecked(browser_context_valid) == TRUE

DeliverToProfile(browser_context_valid) == browser_context_valid

\* The body of NotifyCookieChange, on the UI thread.  It reads the member
\* browser_context_; when the destructor has run on the IO thread in the
\* meantime the read is of a destroyed object and either outcome can follow.
NotifyCookieChange ==
  /\ ui_task # NoTask
  /\ ui_task' = NoTask
  /\ IF builder_alive
     THEN /\ ui_log' = Append(ui_log,
                              LogEntry(ui_task, TRUE, TRUE, profile_alive,
                                       DeliverToProfile(profile_alive)))
          /\ touched_freed' = touched_freed
     ELSE /\ \E outcome \in BOOLEAN :
               ui_log' = Append(ui_log, LogEntry(ui_task, TRUE, FALSE,
                                                 profile_alive, outcome))
          /\ touched_freed' = TRUE
  /\ UNCHANGED <<inputs, build_vars, last_dispatch, builder_alive, weak_valid,
                 profile_alive, cookie_change_sub_, changes_fired, ui_queue>>

\* The owning profile is destroyed on the UI thread (between tasks): the
\* weak reference browser_context_ becomes invalid.
ProfileDestroyed ==
  /\ profile_alive
  /\ ui_task = NoTask
  /\ profile_alive' = FALSE
  /\ UNCHANGED <<inputs, build_vars, last_dispatch, builder_alive, weak_valid,
                 cookie_change_sub_, cookie_vars>>

CookieInit ==
  /\ command_line \in {{}, {"disable-http-cache"}}
  /\ base_path_ \in BasePaths
  /\ in_memory_ \in BOOLEAN
  /\ use_cache_ = TRUE
  /\ handlers_in = EmptyTable
  /\ interceptors_in = <<>>
  /\ Constructed

CookieNext ==
  \/ Create
  \/ \E cookie \in Cookies, cause \in CookieChangeCauses :
       OnCookieChanged(cookie, cause)
  \/ RunTask
  \/ NotifyCookieChange
  \/ ProfileDestroyed
  \/ Teardown

CookieSpec == CookieInit /\ [][CookieNext]_vars

\* ================================================================ properties
ctx == url_request_context_

\* The served context of the first Create() is the one in place.
FirstBuild == ctx.built /\ ctx.gen = 1

\* The prefix of seq that ends at its first element in `stop`.
RECURSIVE UpToFirst(_, _)
UpToFirst(seq, stop) ==
  IF seq = <<>> THEN <<>>
  ELSE IF Head(seq) \in stop THEN <<Head(seq)>>
  ELSE <<Head(seq)>> \o UpToFirst(Tail(seq), stop)

\* The index of step in log, 0 when absent.
Pos(step, log) ==
  IF \E i \in 1..Len(log) : log[i] = step
  THEN CHOOSE i \in 1..Len(log) : log[i] = step
  ELSE 0

\* The positions in log of the steps named in chain are all present and
\* strictly increasing.
RECURSIVE InOrder(_, _)
InOrder(chain, log) ==
  IF Len(chain) = 0 THEN TRUE
  ELSE IF Len(chain) = 1 THEN Pos(chain[1], log) > 0
  ELSE /\ Pos(chain[1], log) > 0
       /\ \E j \in (Pos(chain[1], log) + 1)..Len(log) : log[j] = chain[2]
       /\ InOrder(Tail(chain), log)

\* Every step of log comes after the steps its construction reads.
DepsFirst(log) ==
  \A i \in 1..Len(log) :
    \A d \in Deps(log[i]) : \E j \in 1..(i - 1) : log[j] = d

\* C1: the top-level job factory built by Create() from the interceptor
\* sequence [i1..in] wraps the dispatch table with i1 outermost, i2 next, ...,
\* in innermost, so that every request is offered to i1, then i2, ..., then
\* in, and reaches the dispatch table (0) only when all of them declined; the
\* request stops at the first interceptor that takes it.  With no
\* interceptors the factory is the bare dispatch table.
C1_ConsultOrder ==
  /\ FirstBuild =>
       /\ ctx.top_job_factory = interceptors_in
       /\ (interceptors_in = <<>> => ctx.top_job_factory = <<>>)
  /\ last_dispatch.gen = 1 =>
       last_dispatch.consulted =
         UpToFirst(interceptors_in \o <<0>>, last_dispatch.willing \cup {0})

C1_Witness ==
  /\ last_dispatch.gen = 1
  /\ Len(interceptors_in) >= 2
  /\ last_dispatch.willing = {}
  /\ last_dispatch.consulted = interceptors_in \o <<0>>

\* C3: Create() picks the proxy resolution by the first match of: no-proxy
\* switch -> direct (whatever other proxy switches are present); proxy-server
\* switch -> fixed, with the server rules and the bypass list of the command
\* line; PAC-url switch -> fixed from the PAC URL, marked mandatory; none ->
\* system resolution that consumes the proxy config service created by the
\* constructor.
C3_ProxyPriority ==
  FirstBuild =>
    LET p == ctx.proxy
        no_proxy == "no-proxy-server" \in command_line
        server == "proxy-server" \in command_line
        pac == "proxy-pac-url" \in command_line
    IN /\ no_proxy => p.kind = "direct"
       /\ (~no_proxy /\ server) =>
            /\ p.kind = "fixed"
            /\ p.rules = SwitchValue("proxy-server")
            /\ p.bypass = (IF "proxy-bypass-list" \in command_line
                           THEN SwitchValue("proxy-bypass-list") ELSE "")
            /\ p.pac_url = ""
       /\ (~no_proxy /\ ~server /\ pac) =>
            /\ p.kind = "fixed"
            /\ p.pac_url = SwitchValue("proxy-pac-url")
            /\ p.pac_mandatory
       /\ (~no_proxy /\ ~server /\ ~pac) =>
            /\ p.kind = "system"
            /\ p.source = ProxySystemSource
            /\ proxy_config_service_ = NullSource

C3_Witness ==
  /\ FirstBuild
  /\ {"no-proxy-server", "proxy-server", "proxy-pac-url"} \subseteq command_line
  /\ ctx.proxy.kind = "direct"

\* C4 as claimed: whenever caching is disabled (use_cache false or the
\* disable switch present), for every value of the in-memory flag, the cache
\* backend of the served context fails every create call.
C4_DisabledAlwaysFails ==
  (ctx.built /\ (~use_cache_ \/ "disable-http-cache" \in command_line)) =>
    CreateBackend(ctx.backend) = "ERR_FAILED"

\* C4 amended: for a profile that is not in-memory, caching disabled (flag or
\* switch) gives the backend whose create call always fails; an in-memory
\* profile gets the in-memory backend, whose create call succeeds, whatever
\* the cache flag and the disable switch say.
C4_DisabledFailsUnlessInMemory ==
  ctx.built =>
    /\ (~in_memory_ /\ (~use_cache_ \/ "disable-http-cache" \in command_line))
         => (ctx.backend = NoCacheBackend
             /\ CreateBackend(ctx.backend) = "ERR_FAILED")
    /\ in_memory_ => CreateBackend(ctx.backend) = "OK"

C4_Witness ==
  /\ ctx.built
  /\ ~in_memory_
  /\ use_cache_
  /\ "disable-http-cache" \in command_line
  /\ CreateBackend(ctx.backend) = "ERR_FAILED"

\* C5: an in-memory profile gets the in-memory cache backend and a cookie
\* store built from the empty path, whatever the cache flag and the disable
\* switch; a profile on disk with caching enabled and no disable switch gets
\* the disk cache at <path>/Cache and the cookie store at <path>/Cookies.
C5_MemoryOrDisk ==
  ctx.built =>
    /\ in_memory_ =>
         /\ ctx.backend.type = "MEMORY_CACHE"
         /\ ctx.cookie_store.path = <<>>
         /\ ctx.cookie_store.backing = "memory"
    /\ (~in_memory_ /\ use_cache_ /\ "disable-http-cache" \notin command_line)
         => /\ ctx.backend.type = "DISK_CACHE"
            /\ ctx.backend.path = base_path_ \o <<"Cache">>
            /\ ctx.cookie_store.path = base_path_ \o <<"Cookies">>
            /\ ctx.cookie_store.backing = "persistent"

C5_Witness ==
  /\ ctx.built
  /\ in_memory_
  /\ ~use_cache_
  /\ "disable-http-cache" \in command_line
  /\ ctx.backend.type = "MEMORY_CACHE"

\* C6: after Create() the dispatch table has handlers exactly for the
\* externally supplied schemes and the eight built-in schemes; a scheme of
\* the external map resolves to the external handler (the built-in
\* registration for it changes nothing), any other built-in scheme resolves
\* to its built-in handler, every other scheme resolves to none.
C6_DispatchTable ==
  FirstBuild =>
    /\ DOMAIN ctx.job_factory = DOMAIN handlers_in \cup BuiltinSchemes
    /\ \A s \in AllSchemes :
         LET h == Resolve(ctx.job_factory, s)
         IN IF s \in DOMAIN handlers_in THEN h = handlers_in[s]
            ELSE IF s \in BuiltinSchemes THEN h.origin = "builtin"
            ELSE h = NoHandler

C6_Witness ==
  /\ FirstBuild
  /\ "http" \in DOMAIN handlers_in
  /\ Resolve(ctx.job_factory, "http").origin = "external"
  /\ Resolve(ctx.job_factory, "ftp").origin = "builtin"
  /\ Resolve(ctx.job_factory, "mailto") = NoHandler

\* C7 as claimed: over any sequence of Create() calls the served context is
\* materialized at most once, never rebuilt.
C7_BuiltAtMostOnce == ctx.built => ctx.gen = 1

\* C7 amended: Create() takes the builder from Unbuilt to Built and no call
\* takes a live builder back to Unbuilt, but Create() has no guard: every
\* call materializes a new served context in place of the previous one and
\* leaves the handler map and the interceptor list drained.
C7_EveryCreateRebuilds ==
  [][/\ (ctx.built /\ builder_alive') => url_request_context_'.built
     /\ (creates' = creates + 1) =>
          /\ url_request_context_'.built
          /\ url_request_context_'.gen = creates'
          /\ protocol_handlers_' = EmptyTable
          /\ request_interceptors_' = <<>>]_vars

C7_Witness == ctx.built /\ creates = 2 /\ ctx.gen = 2

\* C8 as claimed: the last interceptor of the input sequence is the outermost
\* wrapper of the top-level job factory.
C8_LastIsOutermost ==
  (FirstBuild /\ interceptors_in # <<>>) =>
    Head(ctx.top_job_factory) = interceptors_in[Len(interceptors_in)]

\* C8 amended: the first interceptor of the input sequence is the outermost
\* wrapper and the last one is the innermost, the one that wraps the dispatch
\* table directly.
C8_FirstIsOutermost ==
  (FirstBuild /\ interceptors_in # <<>>) =>
    /\ Len(ctx.top_job_factory) = Len(interceptors_in)
    /\ Head(ctx.top_job_factory) = interceptors_in[1]
    /\ ctx.top_job_factory[Len(ctx.top_job_factory)] =
         interceptors_in[Len(interceptors_in)]

C8_Witness ==
  /\ FirstBuild
  /\ Len(interceptors_in) >= 2
  /\ Head(ctx.top_job_factory) # interceptors_in[Len(interceptors_in)]

\* C10 as claimed: Create() constructs security state, host resolver, proxy
\* resolver, auth-handler factory, session parameters, session, transaction
\* factory, dispatch table, wrapped dispatch table, in this order.
C10_SecurityStateFirst ==
  build_log # <<>> =>
    InOrder(<<"transport_security_state", "host_resolver",
              "proxy_resolution_service", "http_auth_handler_factory",
              "network_session_params", "http_network_session",
              "http_transaction_factory", "job_factory", "top_job_factory">>,
            build_log)

\* C10 amended: Create() constructs host resolver, proxy resolver,
\* auth-handler factory, security state, session parameters, session,
\* transaction factory, dispatch table, wrapped dispatch table, in this order
\* (the security state comes after the auth-handler factory), and every
\* component is constructed after the components its construction reads.
C10_BuildOrder ==
  build_log # <<>> =>
    /\ InOrder(<<"host_resolver", "proxy_resolution_service",
                 "http_auth_handler_factory", "transport_security_state",
                 "network_session_params", "http_network_session",
                 "http_transaction_factory", "job_factory",
                 "top_job_factory">>, build_log)
    /\ DepsFirst(build_log)

C10_Witness ==
  /\ creates >= 1
  /\ Pos("mapped_host_resolver", build_log) > 0
  /\ build_log[Len(build_log)] = "top_job_factory"

\* C2 as claimed: no interleaving of the destructor with the redispatched
\* tasks lets a task read the destroyed builder, and nothing is delivered to
\* the profile by a task once the builder is torn down.
C2_TeardownRaceSafe ==
  /\ ~touched_freed
  /\ \A i \in 1..Len(ui_log) :
       ~ui_log[i].builder_at_read => ~ui_log[i].delivered

\* C9 as claimed: a redispatched task that runs notifies the profile iff the
\* profile weak reference is valid.
C9_DeliveredIffProfileValid ==
  \A i \in 1..Len(ui_log) : ui_log[i].delivered <=> ui_log[i].profile_at_read

\* C9 amended: every cookie change seen by OnCookieChanged becomes exactly
\* one task of the UI thread, and the profile is notified only by such a
\* task.  A task whose weak pointer to the builder is already invalidated
\* notifies nobody, also when the profile is still valid.  A task that finds
\* the weak pointer valid and reads browser_context_ of a live builder
\* notifies the profile iff the profile weak reference is valid.
C9_Redispatch ==
  /\ changes_fired =
       Len(ui_queue) + Len(ui_log) + (IF ui_task = NoTask THEN 0 ELSE 1)
  /\ \A i \in 1..Len(ui_log) :
       LET e == ui_log[i]
       IN /\ ~e.weak_ok => ~e.delivered
          /\ (e.weak_ok /\ e.builder_at_read) =>
               (e.delivered <=> e.profile_at_read)

C9_Witness ==
  /\ \E i \in 1..Len(ui_log) :
       /\ ui_log[i].weak_ok
       /\ ui_log[i].builder_at_read
       /\ ~ui_log[i].profile_at_read
       /\ ~ui_log[i].delivered
  /\ \E i \in 1..Len(ui_log) :
       /\ ui_log[i].delivered
       /\ ui_log[i].details.removed

====
